---- MODULE Spec2Model ----
(***************************************************************************)
(* County-level SEIR ensemble pipeline (pyseir).                           *)
(*                                                                         *)
(*   ensembles/ensemble_runner.py        EnsembleRunner, run_state         *)
(*   inference/initial_conditions_fitter.py                                *)
(*                                        InitialConditionsFitter,         *)
(*                                        generate_start_times_for_state   *)
(*   parameters/parameter_ensemble_generator.py                            *)
(*                                        ParameterEnsembleGenerator       *)
(*                                                                         *)
(* Floating point values are carried as integers.  Percentiles and means   *)
(* are carried multiplied by 100 (two exact decimal places are all that    *)
(* integer percentiles of integer data need).  NaN is a distinguished      *)
(* value that every arithmetic operation propagates and every ordered      *)
(* comparison answers FALSE on.                                            *)
(***************************************************************************)
EXTENDS Integers, Sequences, FiniteSets, TLC

VARIABLES
    pc,                 \* position of the entry point under execution
    raised,             \* exception that left the entry point, or "none"
    model_ensemble,     \* run_ensemble / aggregator: list of executed models
    output_percentiles, \* EnsembleRunner.output_percentiles
    outputs,            \* value returned by _generate_output_for_suppression_policy
    suppression_policy, \* EnsembleRunner.suppression_policy, in hundredths
    generate_report,    \* EnsembleRunner.generate_report
    policy_idx,         \* run_ensemble: position of the for loop in the list
    all_outputs,        \* EnsembleRunner.all_outputs
    report_calls,       \* arguments of each CountyReport(...).generate_and_save()
    data_file,          \* documents written to output_file_data, oldest first
    processed,          \* history: <<policy, ensemble>> of each loop iteration
    fips,               \* ParameterEnsembleGenerator.fips
    county_metadata,    \* load_data.load_county_metadata(): fips -> row
    hospital_bed_data,  \* load_data.load_hospital_data(): facility rows
    N_samples,          \* ParameterEnsembleGenerator.N_samples
    override_params,    \* argument of sample_seir_parameters
    county_metadata_merged, \* ParameterEnsembleGenerator.county_metadata_merged
    parameter_sets,     \* value returned by sample_seir_parameters
    sampled_sets,       \* sample_seir_parameters: parameter_sets before the overrides
    all_fips,           \* run_state: the regions of the state, in table order
    fatal,              \* the regions whose _run_county raises
    n_workers,          \* processes of Pool(): os.cpu_count()
    taskqueue,          \* Pool.map: chunks not yet taken by a worker
    worker,             \* per process, the rest of the chunk it runs
    map_failed,         \* Pool.map: some chunk ended with an exception
    written,            \* regions whose output_file_data was written
    cases,              \* InitialConditionsFitter: rows of the region, by date
    fit_args,           \* constructor arguments of the fitter
    fitter,             \* the InitialConditionsFitter object, once constructed
    counties,           \* generate_start_times_for_state: fips of the state's counties
    case_data,          \* load_county_case_data(): fips -> rows of the county
    county_idx,         \* generate_start_times_for_state: position of the for loop
    fips_to_fit_map,    \* generate_start_times_for_state: fips -> fit summary
    merged              \* generate_start_times_for_state: rows given to to_pickle

aggVars == <<model_ensemble, output_percentiles, outputs>>

runVars == <<suppression_policy, generate_report, policy_idx, all_outputs,
             report_calls, data_file, processed>>

samplerVars == <<fips, county_metadata, hospital_bed_data, N_samples, override_params,
                 county_metadata_merged, parameter_sets, sampled_sets>>

poolVars == <<all_fips, fatal, n_workers, taskqueue, worker, map_failed, written>>

startVars == <<counties, case_data, county_idx, fips_to_fit_map, merged>>

fitVars == <<cases, fit_args, fitter, startVars>>

vars == <<pc, raised, aggVars, runVars, samplerVars, poolVars, fitVars>>

\* The variables EnsembleRunner does not touch.
offEnsembleVars == <<samplerVars, poolVars, fitVars>>

\* The variables ParameterEnsembleGenerator does not touch.
offSamplerVars == <<aggVars, runVars, poolVars, fitVars>>

\* The variables run_state does not touch.
offPoolVars == <<aggVars, runVars, samplerVars, fitVars>>

\* The variables InitialConditionsFitter does not touch.
offFitVars == <<aggVars, runVars, samplerVars, poolVars>>

(***************************************************************************)
(* Bounds of the model.                                                    *)
(***************************************************************************)
\* Total number of (run, timestep) cells of an ensemble handed to the aggregator.
MaxCells == 3

(***************************************************************************)
(* Floats.                                                                 *)
(***************************************************************************)
NaN == -1000000

IsNaN(x) == x = NaN

\* Gt with the comparison loosened to >=.
GtOrEqual(x, y) == ~IsNaN(x) /\ ~IsNaN(y) /\ x >= y

\* x > y on floats: FALSE as soon as one side is NaN.
Gt(x, y) == ~IsNaN(x) /\ ~IsNaN(y) /\ x > y

Add(x, y) == IF IsNaN(x) \/ IsNaN(y) THEN NaN ELSE x + y

Sub(x, y) == IF IsNaN(x) \/ IsNaN(y) THEN NaN ELSE x - y

Mul(x, y) == IF IsNaN(x) \/ IsNaN(y) THEN NaN ELSE x * y

(***************************************************************************)
(* Python dictionaries: functions over a finite set of string keys.        *)
(***************************************************************************)
EmptyDict == [k \in {} |-> 0]

\* d[k] = v
Put(d, k, v) == [x \in (DOMAIN d) \cup {k} |-> IF x = k THEN v ELSE d[x]]

\* Python's None.
None == <<>>

\* An update in which the entries already present win.
UpdateKeepExisting(d, e) ==
    [x \in (DOMAIN d) \cup (DOMAIN e) |-> IF x \in DOMAIN d THEN d[x] ELSE e[x]]

\* d.update(e)
Update(d, e) == [x \in (DOMAIN d) \cup (DOMAIN e) |-> IF x \in DOMAIN e THEN e[x] ELSE d[x]]

RECURSIVE SumSeq(_)
SumSeq(s) == IF s = <<>> THEN 0 ELSE Head(s) + SumSeq(Tail(s))

Reverse(s) == [i \in 1..Len(s) |-> s[Len(s) + 1 - i]]

Range(s) == {s[i] : i \in 1..Len(s)}


(***************************************************************************)
(* Each specification below exercises one entry point; the variables of    *)
(* the other entry points keep these values throughout.                    *)
(***************************************************************************)
AggIdle ==
    /\ model_ensemble = <<>>
    /\ output_percentiles = <<>>
    /\ outputs = EmptyDict

\* The variables of run_ensemble when another entry point is exercised.
RunIdle ==
    /\ suppression_policy = <<>>
    /\ generate_report = FALSE
    /\ policy_idx = 0
    /\ all_outputs = EmptyDict
    /\ report_calls = <<>>
    /\ data_file = <<>>
    /\ processed = <<>>

\* The variables of the parameter generator when another entry point is exercised.
SamplerIdle ==
    /\ fips = ""
    /\ county_metadata = EmptyDict
    /\ hospital_bed_data = <<>>
    /\ N_samples = 0
    /\ override_params = EmptyDict
    /\ county_metadata_merged = EmptyDict
    /\ parameter_sets = <<>>
    /\ sampled_sets = <<>>

\* The variables of run_state when another entry point is exercised.
PoolIdle ==
    /\ all_fips = <<>>
    /\ fatal = {}
    /\ n_workers = 0
    /\ taskqueue = <<>>
    /\ worker = <<>>
    /\ map_failed = FALSE
    /\ written = {}

\* The variables of generate_start_times_for_state when it is not exercised.
StartIdle ==
    /\ counties = <<>>
    /\ case_data = EmptyDict
    /\ county_idx = 0
    /\ fips_to_fit_map = EmptyDict
    /\ merged = <<>>

\* The variables of the fitter when another entry point is exercised.
FitIdle ==
    /\ cases = <<>>
    /\ fit_args = EmptyDict
    /\ fitter = EmptyDict
    /\ StartIdle

\* Everything outside EnsembleRunner is idle.
OffEnsembleIdle == SamplerIdle /\ PoolIdle /\ FitIdle

\* Everything outside ParameterEnsembleGenerator is idle.
OffSamplerIdle == AggIdle /\ RunIdle /\ PoolIdle /\ FitIdle

\* Everything outside run_state is idle.
OffPoolIdle == AggIdle /\ RunIdle /\ SamplerIdle /\ FitIdle

\* Everything outside InitialConditionsFitter is idle.
OffFitIdle == AggIdle /\ RunIdle /\ SamplerIdle /\ PoolIdle

(***************************************************************************)
(* EnsembleRunner: aggregation of one ensemble of executed models.         *)
(* A model m is a record                                                   *)
(*   results      compartment name -> series (m.results)                   *)
(*   t_list       the model's time grid                                    *)
(*   beds_general, beds_ICU, ventilators   the run's capacity constants    *)
(***************************************************************************)
compartment_to_capacity_attr_map ==
    [HGen |-> "beds_general", HICU |-> "beds_ICU", HVent |-> "ventilators"]

\* getattr(m, compartment_to_capacity_attr_map[compartment])
Capacity(m, compartment) == m[compartment_to_capacity_attr_map[compartment]]

\* key not in ('t_list'): the parentheses make no tuple, so this is Python's
\* substring test against the string 't_list'.
SubstringsOfTList ==
    {"", "t", "_", "l", "i", "s", "t_", "_l", "li", "is", "st", "t_l", "_li",
     "lis", "ist", "t_li", "_lis", "list", "t_lis", "_list", "t_list"}

\* np.argwhere(series > capacity): the positions, ascending.
ArgWhereGt(series, capacity) ==
    SelectSeq([i \in 1..Len(series) |-> i], LAMBDA i : Gt(series[i], capacity))

SurgeStartOf(m, compartment) ==
    LET surge_start_idx == ArgWhereGt(m.results[compartment], Capacity(m, compartment))
    IN  IF Len(surge_start_idx) > 0 THEN m.t_list[surge_start_idx[1]] ELSE NaN

\* A surge end that indexes the grid in its original order.
SurgeEndOfUnreversedGrid(m, compartment) ==
    LET surge_end_idx ==
            ArgWhereGt(Reverse(m.results[compartment]), Capacity(m, compartment))
    IN  IF Len(surge_end_idx) > 0 THEN m.t_list[surge_end_idx[1]] ELSE NaN

SurgeEndOf(m, compartment) ==
    LET surge_end_idx ==
            ArgWhereGt(Reverse(m.results[compartment]), Capacity(m, compartment))
    IN  IF Len(surge_end_idx) > 0 THEN Reverse(m.t_list)[surge_end_idx[1]] ELSE NaN

\* _get_surge_window: <<surge_start, surge_end>>, one entry per model.
get_surge_window(ensemble, compartment) ==
    << [i \in 1..Len(ensemble) |-> SurgeStartOf(ensemble[i], compartment)],
       [i \in 1..Len(ensemble) |-> SurgeEndOf(ensemble[i], compartment)] >>

\* The compartments _generate_compartment_arrays stacks: the first model's keys.
StackedKeys(ensemble) ==
    {key \in DOMAIN ensemble[1].results : key \notin SubstringsOfTList}

\* _generate_compartment_arrays: model.results[key] raises KeyError for a model
\* that lacks a key of the first model; np.vstack raises ValueError when the
\* rows of one compartment differ in length.
generate_compartment_arrays(ensemble) ==
    LET compartments == StackedKeys(ensemble)
        lacks == \E i \in 1..Len(ensemble) :
                     \E key \in compartments : key \notin DOMAIN ensemble[i].results
        ragged == \E i \in 1..Len(ensemble) : \E key \in compartments :
                     Len(ensemble[i].results[key]) # Len(ensemble[1].results[key])
    IN  IF lacks THEN [raised |-> "KeyError", arrays |-> EmptyDict]
        ELSE IF ragged THEN [raised |-> "ValueError", arrays |-> EmptyDict]
        ELSE [raised |-> "none",
              arrays |-> [key \in compartments |->
                             [i \in 1..Len(ensemble) |-> ensemble[i].results[key]]]]

\* Percentile100 interpolating over the values as given, not sorted.
Percentile100Unsorted(values, percentile) ==
    LET n    == Len(values)
        pos  == percentile * (n - 1)
        lo   == pos \div 100
        frac == pos % 100
        hi   == IF lo + 1 < n THEN lo + 1 ELSE lo
    IN  100 * values[lo + 1] + frac * (values[hi + 1] - values[lo + 1])

\* 100 * np.percentile(values, percentile), linear interpolation between the
\* two order statistics around the virtual index percentile/100 * (n - 1).
Percentile100(values, percentile) ==
    LET sorted == SortSeq(values, LAMBDA a, b : a < b)
        n      == Len(sorted)
        pos    == percentile * (n - 1)
        lo     == pos \div 100
        frac   == pos % 100
        hi     == IF lo + 1 < n THEN lo + 1 ELSE lo
    IN  100 * sorted[lo + 1] + frac * (sorted[hi + 1] - sorted[lo + 1])

Column(value_stack, j) == [i \in 1..Len(value_stack) |-> value_stack[i][j]]

\* np.percentile(value_stack, percentile, axis=0).tolist()
PercentileAxis0(value_stack, percentile) ==
    [j \in 1..Len(value_stack[1]) |-> Percentile100(Column(value_stack, j), percentile)]

\* 'ci_%i' % percentile
CiKey(percentile) == "ci_" \o ToString(percentile)

PeakValueKey(percentile) == "peak_value_ci" \o ToString(percentile)

PeakTimeKey(percentile) == "peak_time_ci" \o ToString(percentile)

RECURSIVE CiEntries(_, _, _)
CiEntries(d, value_stack, percentiles) ==
    IF percentiles = <<>> THEN d
    ELSE CiEntries(Put(d, CiKey(Head(percentiles)),
                       PercentileAxis0(value_stack, Head(percentiles))),
                   value_stack, Tail(percentiles))

\* row.argmax(): the first position of the maximum.
ArgMax(row) ==
    CHOOSE i \in 1..Len(row) :
        /\ \A j \in 1..Len(row) : row[j] <= row[i]
        /\ \A j \in 1..(i - 1) : row[j] < row[i]

RECURSIVE PeakEntries(_, _, _, _)
PeakEntries(d, values_at_peak_index, peak_times, percentiles) ==
    IF percentiles = <<>> THEN d
    ELSE PeakEntries(
             Put(Put(d, PeakValueKey(Head(percentiles)),
                        Percentile100(values_at_peak_index, Head(percentiles))),
                 PeakTimeKey(Head(percentiles)),
                 Percentile100(peak_times, Head(percentiles))),
             values_at_peak_index, peak_times, Tail(percentiles))

\* _detect_peak_time_and_value
detect_peak_time_and_value(value_stack, t_list, percentiles) ==
    LET peak_indices == [i \in 1..Len(value_stack) |-> ArgMax(value_stack[i])]
        peak_times == [i \in 1..Len(value_stack) |-> t_list[peak_indices[i]]]
        values_at_peak_index ==
            [i \in 1..Len(value_stack) |-> value_stack[i][peak_indices[i]]]
    IN  Put(PeakEntries(EmptyDict, values_at_peak_index, peak_times, percentiles),
            "peak_value_mean",
            (100 * SumSeq(values_at_peak_index)) \div Len(values_at_peak_index))

\* Lines 246-248: both results of _get_surge_window are assigned, left to right,
\* to the key 'surge_start'; then the per-run capacities are recorded.
SurgeEntries(ensemble, compartment) ==
    LET window == get_surge_window(ensemble, compartment)
    IN  Put(Put(Put(EmptyDict, "surge_start", window[1]), "surge_start", window[2]),
            "capacity",
            [i \in 1..Len(ensemble) |-> Capacity(ensemble[i], compartment)])

\* The dictionary stored under one compartment (lines 240-253).
CompartmentOutput(ensemble, compartment, value_stack, t_list, percentiles) ==
    LET compartment_output ==
            IF compartment \in DOMAIN compartment_to_capacity_attr_map
            THEN SurgeEntries(ensemble, compartment)
            ELSE EmptyDict
    IN  Update(CiEntries(EmptyDict, value_stack, percentiles),
               Update(compartment_output,
                      detect_peak_time_and_value(value_stack, t_list, percentiles)))

\* _generate_output_for_suppression_policy: [raised, outputs].
generate_output_for_suppression_policy(ensemble, percentiles) ==
    LET t_list == ensemble[1].t_list
        stacked == generate_compartment_arrays(ensemble)
    IN  IF stacked.raised # "none"
        THEN [raised |-> stacked.raised, outputs |-> EmptyDict]
        ELSE [raised |-> "none",
              outputs |->
                  [key \in (DOMAIN stacked.arrays) \cup {"t_list"} |->
                      IF key = "t_list" THEN t_list
                      ELSE CompartmentOutput(ensemble, key, stacked.arrays[key],
                                             t_list, percentiles)]]

(***************************************************************************)
(* Inputs of the aggregator: ensembles of at most MaxCells cells.  Every   *)
(* compartment of one run carries the run's series; runs may disagree on   *)
(* their keys and on their length (a run that stopped early).              *)
(***************************************************************************)
Values == 0..2

\* <<beds_general, beds_ICU, ventilators>> of one run
CapacityTriples == {<<0, 1, 2>>, <<2, 1, 1>>}

KeySets == {{"HGen", "HICU", "HVent", "t_list"}, {"HGen", "HICU", "HVent", "I", "t_list"}}

\* The percentile lists requested; like the constructor's default, not sorted.
PercentileLists == {<<0, 75, 68>>, <<100, 5>>}

\* Grid values differ from grid positions.
TimeGrid(n) == [i \in 1..n |-> 2 * (i - 1)]

SeriesOfLen(n) == [1..n -> Values]

ModelRuns(n) ==
    {[results |-> [key \in keys |-> IF key = "t_list" THEN TimeGrid(n) ELSE series],
      t_list |-> TimeGrid(n),
      beds_general |-> c[1], beds_ICU |-> c[2], ventilators |-> c[3]] :
        keys \in KeySets, series \in SeriesOfLen(n), c \in CapacityTriples}

\* Number of (run, timestep) cells of an ensemble.
RECURSIVE Cells(_)
Cells(ensemble) ==
    IF ensemble = <<>> THEN 0 ELSE Len(Head(ensemble).t_list) + Cells(Tail(ensemble))

(***************************************************************************)
(* A direct call of _generate_output_for_suppression_policy on a list of   *)
(* executed models.                                                        *)
(***************************************************************************)
InitAggregate ==
    /\ pc = "simulate"
    /\ raised = "none"
    /\ model_ensemble = <<>>
    /\ output_percentiles \in PercentileLists
    /\ outputs = EmptyDict
    /\ RunIdle
    /\ OffEnsembleIdle

\* _run_single_simulation: one more executed model joins the list.
Simulate ==
    /\ pc = "simulate"
    /\ \E n \in 1..(MaxCells - Cells(model_ensemble)) : \E m \in ModelRuns(n) :
           model_ensemble' = Append(model_ensemble, m)
    /\ UNCHANGED <<pc, raised, output_percentiles, outputs, runVars, offEnsembleVars>>

Aggregate ==
    /\ pc = "simulate"
    /\ model_ensemble # <<>>
    /\ LET r == generate_output_for_suppression_policy(model_ensemble, output_percentiles)
       IN  /\ raised' = r.raised
           /\ outputs' = r.outputs
    /\ pc' = "done"
    /\ UNCHANGED <<model_ensemble, output_percentiles, runVars, offEnsembleVars>>

NextAggregate == Simulate \/ Aggregate

SpecAggregate == InitAggregate /\ [][NextAggregate]_vars

Aggregated == pc = "done" /\ raised = "none"

\* The capacity-bound compartments the returned summary holds.
CapacityCompartments == (DOMAIN outputs) \cap (DOMAIN compartment_to_capacity_attr_map)

\* The runs' compartment keys or series lengths disagree.
ShapesDisagree(ensemble) ==
    \E i \in 1..Len(ensemble) :
        \/ DOMAIN ensemble[i].results # DOMAIN ensemble[1].results
        \/ \E key \in (DOMAIN ensemble[i].results) \cap (DOMAIN ensemble[1].results) :
               Len(ensemble[i].results[key]) # Len(ensemble[1].results[key])

\* Run i's series for the compartment never goes strictly above the run's capacity.
NeverExceeds(m, compartment) ==
    \A j \in 1..Len(m.results[compartment]) :
        m.results[compartment][j] <= Capacity(m, compartment)

\* C1: for every capacity-bound compartment the summary holds the surge-start
\* times and the surge-end times of every run as two separate entries,
\* together with the per-run capacity; surge-end does not replace surge-start.
C1_SurgeStartAndEndRecorded ==
    Aggregated =>
        \A c \in CapacityCompartments :
            /\ {"surge_start", "surge_end", "capacity"} \subseteq DOMAIN outputs[c]
            /\ outputs[c]["surge_start"] = get_surge_window(model_ensemble, c)[1]
            /\ outputs[c]["surge_end"] = get_surge_window(model_ensemble, c)[2]
            /\ outputs[c]["capacity"] =
                   [i \in 1..Len(model_ensemble) |-> Capacity(model_ensemble[i], c)]

\* C2: a run whose series never goes strictly above its capacity (equality
\* included) gets NaN as surge start and as surge end, and the aggregation of a
\* shape-consistent ensemble holding such a run returns without raising, the
\* NaN being part of the returned summary.
C2_NeverExceededGivesNaN ==
    /\ pc = "done" => \A i \in 1..Len(model_ensemble) :
           \A c \in (DOMAIN model_ensemble[i].results)
                        \cap (DOMAIN compartment_to_capacity_attr_map) :
               NeverExceeds(model_ensemble[i], c) =>
                   LET window == get_surge_window(<<model_ensemble[i]>>, c)
                   IN  window[1] = <<NaN>> /\ window[2] = <<NaN>>
    /\ (pc = "done" /\ ~ShapesDisagree(model_ensemble)) =>
           /\ raised = "none"
           /\ \A c \in CapacityCompartments : \A i \in 1..Len(model_ensemble) :
                  NeverExceeds(model_ensemble[i], c) => outputs[c]["surge_start"][i] = NaN

\* C2 witness: an aggregated ensemble with a run that reaches its ICU
\* capacity exactly and never passes it.
C2_Witness ==
    /\ Aggregated
    /\ \E i \in 1..Len(model_ensemble) :
           /\ NeverExceeds(model_ensemble[i], "HICU")
           /\ \E j \in 1..Len(model_ensemble[i].results["HICU"]) :
                  model_ensemble[i].results["HICU"][j] = model_ensemble[i].beds_ICU
           /\ outputs["HICU"]["surge_start"][i] = NaN

\* The timesteps at which the run's series is strictly above its capacity.
Exceeding(m, compartment) ==
    {j \in 1..Len(m.results[compartment]) :
        m.results[compartment][j] > Capacity(m, compartment)}

\* The run of the scenario: capacity 2, series [1, 3, 1], time grid [0, 1, 2].
ScenarioRun ==
    [results |-> [HGen |-> <<1, 3, 1>>], t_list |-> <<0, 1, 2>>,
     beds_general |-> 2, beds_ICU |-> 2, ventilators |-> 2]

\* C13: for a run whose series exceeds its capacity at some timestep,
\* _get_surge_window gives the grid value at the earliest such timestep as
\* surge start and the grid value at the latest as surge end; so start <= end,
\* both are equal when exactly one timestep exceeds, and the scenario run
\* gets start = end = 1.
C13_SurgeWindowIsFirstAndLastExceedance ==
    /\ pc = "done" => \A i \in 1..Len(model_ensemble) :
           \A c \in (DOMAIN model_ensemble[i].results)
                        \cap (DOMAIN compartment_to_capacity_attr_map) :
               LET m == model_ensemble[i]
                   over == Exceeding(m, c)
                   window == get_surge_window(<<m>>, c)
               IN  over # {} =>
                       /\ \E first \in over : /\ \A j \in over : first <= j
                                               /\ window[1] = <<m.t_list[first]>>
                       /\ \E last \in over : /\ \A j \in over : j <= last
                                              /\ window[2] = <<m.t_list[last]>>
                       /\ window[1][1] <= window[2][1]
                       /\ Cardinality(over) = 1 => window[1] = window[2]
    /\ get_surge_window(<<ScenarioRun>>, "HGen") = << <<1>>, <<1>> >>

\* C13 witness: a run of three timesteps above its ICU capacity at the
\* first and the last one has its surge window from the first to the last
\* grid value.
C13_Witness ==
    /\ pc = "done"
    /\ Len(model_ensemble) = 1
    /\ Exceeding(model_ensemble[1], "HICU") = {1, 3}
    /\ get_surge_window(model_ensemble, "HICU") = << <<0>>, <<4>> >>

\* C3: for requested percentiles p <= q, band ci_p is at most band ci_q at
\* every timestep of every compartment, whatever the order of the request.
C3_PercentileBandsMonotone ==
    Aggregated =>
        \A c \in (DOMAIN outputs) \ {"t_list"} :
            \A p \in Range(output_percentiles), q \in Range(output_percentiles) :
                p <= q =>
                    \A j \in 1..Len(outputs["t_list"]) :
                        outputs[c][CiKey(p)][j] <= outputs[c][CiKey(q)][j]

\* C3 witness: percentiles requested in descending order over three runs whose
\* values differ, and the lower band strictly below the upper one.
C3_Witness ==
    /\ Aggregated
    /\ output_percentiles = <<100, 5>>
    /\ Len(model_ensemble) = 3
    /\ model_ensemble[1].results["HGen"][1] > model_ensemble[2].results["HGen"][1]
    /\ outputs["HGen"]["ci_5"][1] < outputs["HGen"]["ci_100"][1]

\* C10: when the runs disagree on compartment keys or on series length, the
\* aggregation ends with an error instead of returning a summary.
C10_ShapeMismatchRaises ==
    (pc = "done" /\ ShapesDisagree(model_ensemble)) => raised # "none"

(***************************************************************************)
(* EnsembleRunner.run_ensemble.                                            *)
(***************************************************************************)
\* Scenarios per list.
MaxPolicies == 2

\* Scenario values in hundredths: 0.35, 0.5, 0.75 and the integer 1.
PolicyValues == {35, 50, 75, 100}

\* str() of a scenario value, as the f-string formats it.
PolicyText(policy) ==
    IF policy = 100 THEN "1"
    ELSE IF policy % 10 = 0 THEN "0." \o ToString(policy \div 10)
    ELSE "0." \o ToString(policy)

\* f'suppression_policy__{suppression_policy}'
PolicyKey(policy) == "suppression_policy__" \o PolicyText(policy)

\* Lists of distinct scenarios, the empty list included.
PolicyLists ==
    {l \in UNION {[1..n -> PolicyValues] : n \in 0..MaxPolicies} :
        \A i \in 1..Len(l), j \in 1..Len(l) : l[i] = l[j] => i = j}

\* What list(map(_run_single_simulation, parameter_ensemble)) can return: the
\* models share the keys and the time grid the runner passes to every one.
SimulatedEnsembles ==
    {<<m>> : m \in {r \in ModelRuns(1) : "I" \in DOMAIN r.results}}

\* model_ensemble before the loop has bound it.
Unbound == <<>>

DefaultPercentiles == <<5, 25, 32, 50, 75, 68, 95>>

InitRunEnsemble ==
    /\ pc = "loop"
    /\ raised = "none"
    /\ model_ensemble = Unbound
    /\ output_percentiles = DefaultPercentiles
    /\ outputs = EmptyDict
    /\ suppression_policy \in PolicyLists
    /\ generate_report \in BOOLEAN
    /\ policy_idx = 1
    /\ all_outputs = EmptyDict
    /\ report_calls = <<>>
    /\ data_file = <<>>
    /\ processed = <<>>
    /\ OffEnsembleIdle

\* One iteration of the loop of lines 98-115: sample, simulate, aggregate, store.
RunScenario ==
    /\ pc = "loop"
    /\ policy_idx <= Len(suppression_policy)
    /\ \E ensemble \in SimulatedEnsembles :
           LET policy == suppression_policy[policy_idx]
               r == generate_output_for_suppression_policy(ensemble, output_percentiles)
           IN  /\ model_ensemble' = ensemble
               /\ processed' = Append(processed, <<policy, ensemble>>)
               /\ IF r.raised # "none"
                  THEN /\ raised' = r.raised
                       /\ pc' = "done"
                       /\ UNCHANGED <<all_outputs, policy_idx>>
                  ELSE /\ all_outputs' = Put(all_outputs, PolicyKey(policy), r.outputs)
                       /\ policy_idx' = policy_idx + 1
                       /\ UNCHANGED <<raised, pc>>
    /\ UNCHANGED <<output_percentiles, outputs, suppression_policy, generate_report,
                   report_calls, data_file, offEnsembleVars>>

\* Lines 117-123: the report is built from the local model_ensemble, which
\* only an iteration of the loop binds.
Report ==
    /\ pc = "loop"
    /\ policy_idx > Len(suppression_policy)
    /\ generate_report
    /\ IF model_ensemble = Unbound
       THEN /\ raised' = "UnboundLocalError"
            /\ pc' = "done"
            /\ UNCHANGED report_calls
       ELSE /\ report_calls' = Append(report_calls,
                                      [model_ensemble |-> model_ensemble,
                                       county_outputs |-> all_outputs])
            /\ pc' = "dump"
            /\ UNCHANGED raised
    /\ UNCHANGED <<aggVars, suppression_policy, generate_report, policy_idx,
                   all_outputs, data_file, processed, offEnsembleVars>>

SkipReport ==
    /\ pc = "loop"
    /\ policy_idx > Len(suppression_policy)
    /\ ~generate_report
    /\ pc' = "dump"
    /\ UNCHANGED <<raised, aggVars, runVars, offEnsembleVars>>

\* Lines 125-126: json.dump(self.all_outputs, f)
Dump ==
    /\ pc = "dump"
    /\ data_file' = Append(data_file, all_outputs)
    /\ pc' = "done"
    /\ UNCHANGED <<raised, aggVars, suppression_policy, generate_report, policy_idx,
                   all_outputs, report_calls, processed, offEnsembleVars>>

NextRunEnsemble == RunScenario \/ Report \/ SkipReport \/ Dump

SpecRunEnsemble == InitRunEnsemble /\ [][NextRunEnsemble]_vars

AllPolicyKeys == {PolicyKey(suppression_policy[i]) : i \in 1..Len(suppression_policy)}

\* C6: the scenarios are processed in list order and stored under
\* suppression_policy__<value>; the report, when enabled, is produced exactly
\* once, after every scenario is stored, from the last scenario's model runs
\* and the full summary; the summary with one entry per scenario is then
\* serialized, with or without the report.
C6_ReportThenSerialize ==
    /\ \A i \in 1..Len(processed) : processed[i][1] = suppression_policy[i]
    /\ DOMAIN all_outputs = {PolicyKey(suppression_policy[i]) : i \in 1..(policy_idx - 1)}
    /\ report_calls # <<>> =>
           /\ Len(report_calls) = 1
           /\ Len(processed) = Len(suppression_policy)
           /\ report_calls[1].model_ensemble = processed[Len(processed)][2]
           /\ DOMAIN report_calls[1].county_outputs = AllPolicyKeys
    /\ data_file # <<>> => (generate_report => Len(report_calls) = 1)
    /\ pc = "done" =>
           /\ raised = "none"
           /\ generate_report => Len(report_calls) = 1
           /\ Len(data_file) = 1
           /\ DOMAIN data_file[1] = AllPolicyKeys

(***************************************************************************)
(* ParameterEnsembleGenerator.                                             *)
(* Rates are carried in the unit given with each field; 'ventilators' is   *)
(* carried in tenths (ICU beds times a factor drawn from 1.0 .. 1.2).      *)
(***************************************************************************)
\* Parameter sets per call.
MaxSamples == 2

\* Facility rows of the hospital table.
MaxFacilities == 2

FipsCodes == {"06001", "06003"}

HospitalColumns ==
    {"num_licensed_beds", "num_staffed_beds", "num_icu_beds", "bed_utilization",
     "potential_increase_in_bed_capac"}

\* Region metadata: every region listed has its total population.
MetadataTables ==
    {[f \in fs |-> [total_population |-> 1000]] : fs \in {{"06001"}, {"06001", "06003"}}}

FacilityRows ==
    {[fips |-> "06001", num_licensed_beds |-> 10, num_staffed_beds |-> 8,
      num_icu_beds |-> 2, bed_utilization |-> 1, potential_increase_in_bed_capac |-> 3],
     [fips |-> "06003", num_licensed_beds |-> 4, num_staffed_beds |-> 4,
      num_icu_beds |-> 0, bed_utilization |-> 1, potential_increase_in_bed_capac |-> 0]}

HospitalTables == UNION {[1..n -> FacilityRows] : n \in 0..MaxFacilities}

OverrideChoices ==
    {EmptyDict, [R0 |-> 35], [R0 |-> 35, kappa |-> 2, beds_ICU |-> 7], [seed |-> 1]}

\* One draw of the random numbers of one parameter set:
\*   R0 in tenths, fraction_asymptomatic and the two hospitalization draws in
\*   hundredths, ventilator_factor in tenths.
Draws ==
    [R0 : {30, 45}, fraction_asymptomatic : {50},
     hospitalization_rate_general : {10}, icu_given_general : {-3, 29},
     ventilator_factor : {10, 12}]

RECURSIVE SumColumn(_, _, _)
SumColumn(rows, f, column) ==
    IF rows = <<>> THEN 0
    ELSE (IF Head(rows).fips = f THEN Head(rows)[column] ELSE 0)
         + SumColumn(Tail(rows), f, column)

\* hospital_bed_data[...].groupby('fips').sum()
GroupBySum(rows) ==
    [f \in {rows[i].fips : i \in 1..Len(rows)} |->
        [column \in HospitalColumns |-> SumColumn(rows, f, column)]]

\* county_metadata.merge(hospital_bed_data, on='fips', how='left').set_index('fips'):
\* a region without hospital rows keeps its row, with NaN in the hospital columns.
MergeLeft(metadata, hospital) ==
    [f \in DOMAIN metadata |->
        [column \in {"total_population"} \cup HospitalColumns |->
            IF column = "total_population" THEN metadata[f].total_population
            ELSE IF f \in DOMAIN hospital THEN hospital[f][column]
            ELSE NaN]]

\* Loc that answers a missing label with a row of NaN, as reindex would.
LocOrNaN(table, label) ==
    [raised |-> "none",
     row |-> IF label \in DOMAIN table THEN table[label]
             ELSE [column \in {"total_population"} \cup HospitalColumns |-> NaN]]

\* table.loc[label].to_dict(): KeyError for a label the index lacks.
Loc(table, label) ==
    IF label \in DOMAIN table
    THEN [raised |-> "none", row |-> table[label]]
    ELSE [raised |-> "KeyError", row |-> EmptyDict]

\* override_params or dict(): None and the empty dict both give the empty dict.
OrDict(d) == IF d = None \/ d = EmptyDict THEN EmptyDict ELSE d

\* d.get(key, default)
Get(d, key, default) == IF key \in DOMAIN d THEN d[key] ELSE default

Max(a, b) == IF a >= b THEN a ELSE b

\* The dict of lines 69-128 for one draw.  The fields drawn from a single
\* normal, uniform or gamma distribution and used nowhere else (sigma, delta,
\* the lengths of stay, the mortality rates) are carried by R0's example.
ParameterSet(row, draw) ==
    [t_list |-> TimeGrid(2),
     N |-> row["total_population"],
     A_initial |-> (100 * draw.fraction_asymptomatic * 1) \div (100 - draw.fraction_asymptomatic),
     I_initial |-> 1,
     R_initial |-> 0,
     E_initial |-> 0,
     D_initial |-> 0,
     HGen_initial |-> 0,
     HICU_initial |-> 0,
     HICUVent_initial |-> 0,
     suppression_policy |-> "suppression_policy",
     R0 |-> draw.R0,
     hospitalization_rate_general |-> draw.hospitalization_rate_general,
     hospitalization_rate_icu |->
         Max(draw.icu_given_general * draw.hospitalization_rate_general, 0),
     kappa |-> 1,
     gamma |-> draw.fraction_asymptomatic,
     mortality_rate_no_ventilator |-> 1,
     beds_general |->
         Add(Sub(Get(row, "num_licensed_beds", 0), Get(row, "bed_utilization", 0)),
             Get(row, "potential_increase_in_bed_capac", 0)),
     beds_ICU |-> Get(row, "num_icu_beds", 0),
     ventilators |-> Mul(Get(row, "num_icu_beds", 0), draw.ventilator_factor)]

InitSampler ==
    /\ pc = "construct"
    /\ raised = "none"
    /\ fips \in FipsCodes
    /\ county_metadata \in MetadataTables
    /\ hospital_bed_data \in HospitalTables
    /\ N_samples \in 1..MaxSamples
    /\ override_params \in OverrideChoices
    /\ county_metadata_merged = EmptyDict
    /\ parameter_sets = <<>>
    /\ sampled_sets = <<>>
    /\ OffSamplerIdle

\* ParameterEnsembleGenerator.__init__
Construct ==
    /\ pc = "construct"
    /\ LET r == Loc(MergeLeft(county_metadata, GroupBySum(hospital_bed_data)), fips)
       IN  /\ raised' = r.raised
           /\ county_metadata_merged' = r.row
           /\ pc' = IF r.raised = "none" THEN "constructed" ELSE "done"
    /\ UNCHANGED <<fips, county_metadata, hospital_bed_data, N_samples, override_params,
                   parameter_sets, sampled_sets, offSamplerVars>>

\* sample_seir_parameters(override_params).  The call reads the constructed
\* object only, so a further call on it returns one of the same lists.
SampleSeirParameters ==
    /\ pc = "constructed"
    /\ \E draws \in [1..N_samples -> Draws] :
           /\ sampled_sets' =
                  [i \in 1..N_samples |-> ParameterSet(county_metadata_merged, draws[i])]
           /\ parameter_sets' =
                  [i \in 1..N_samples |-> Update(sampled_sets'[i], OrDict(override_params))]
    /\ pc' = "sampled"
    /\ UNCHANGED <<raised, fips, county_metadata, hospital_bed_data, N_samples,
                   override_params, county_metadata_merged, offSamplerVars>>

NextSampler == Construct \/ SampleSeirParameters

SpecSampler == InitSampler /\ [][NextSampler]_vars

\* The region has no row in the hospital table.
NoHospitalRow == \A i \in 1..Len(hospital_bed_data) : hospital_bed_data[i].fips # fips

\* C7: for a region of the metadata without a hospital row every parameter set
\* has beds_general = 0, beds_ICU = 0 and a ventilator count that is a
\* non-negative number, not NaN.
C7_MissingHospitalRowDefaultsToZero ==
    (fips \in DOMAIN county_metadata /\ NoHospitalRow) =>
        \A i \in 1..Len(parameter_sets) :
            /\ parameter_sets[i].beds_general = 0
            /\ parameter_sets[i].beds_ICU = 0
            /\ ~IsNaN(parameter_sets[i].ventilators)
            /\ parameter_sets[i].ventilators >= 0

\* C8: for a region the metadata lacks, construction ends with an error and no
\* parameter set is ever produced; in particular none with N missing or NaN.
C8_MissingRegionFailsAtConstruction ==
    /\ fips \notin DOMAIN county_metadata =>
           /\ pc \in {"construct", "done"}
           /\ pc = "done" => raised = "KeyError"
           /\ parameter_sets = <<>>
    /\ \A i \in 1..Len(parameter_sets) :
           "N" \in DOMAIN parameter_sets[i] /\ ~IsNaN(parameter_sets[i].N)

\* C8 witness: construction for a region the metadata lacks has ended in KeyError.
C8_Witness ==
    /\ fips \notin DOMAIN county_metadata
    /\ pc = "done"
    /\ raised = "KeyError"
    /\ parameter_sets = <<>>

\* C11: sample_seir_parameters returns exactly N_samples parameter sets; each
\* holds the override's value under every key of the override mapping, and
\* under every other key the value it was sampled with.
C11_OverridesWinAndFrameKept ==
    pc = "sampled" =>
        /\ Len(parameter_sets) = N_samples
        /\ Len(sampled_sets) = N_samples
        /\ \A i \in 1..Len(parameter_sets) :
               /\ DOMAIN parameter_sets[i] = DOMAIN sampled_sets[i] \cup DOMAIN override_params
               /\ \A k \in DOMAIN override_params :
                      parameter_sets[i][k] = override_params[k]
               /\ \A k \in DOMAIN sampled_sets[i] \ DOMAIN override_params :
                      parameter_sets[i][k] = sampled_sets[i][k]

\* C11 witness: two sets were returned with an override that replaced a
\* sampled value, replaced a constant and left the other fields alone.
C11_Witness ==
    /\ pc = "sampled"
    /\ N_samples = 2
    /\ override_params = [R0 |-> 35, kappa |-> 2, beds_ICU |-> 7]
    /\ sampled_sets[1].R0 = 30
    /\ sampled_sets[2].R0 = 45
    /\ parameter_sets[1].R0 = 35
    /\ parameter_sets[2].kappa = 2
    /\ parameter_sets[1].gamma = sampled_sets[1].gamma

(***************************************************************************)
(* run_state: Pool().map(_run_county, all_fips).                           *)
(* Pool.map cuts the list into consecutive chunks, hands each chunk to a   *)
(* free process, which runs list(map(f, chunk)); an exception of f ends    *)
(* that chunk.  map returns, or raises the first exception, once every     *)
(* chunk has ended.                                                        *)
(***************************************************************************)
\* Regions of the state.
MaxRegions == 5

\* Processes of the pool.
MaxWorkers == 2

\* Pool.map's default chunksize: divmod(len(iterable), len(pool) * 4), rounded up.
ChunkSize(n, processes) ==
    (n \div (processes * 4)) + (IF n % (processes * 4) # 0 THEN 1 ELSE 0)

\* Pool._get_tasks: consecutive slices of the list, chunksize long.
RECURSIVE GetTasks(_, _)
GetTasks(items, size) ==
    IF items = <<>> THEN <<>>
    ELSE IF Len(items) <= size THEN <<items>>
    ELSE <<SubSeq(items, 1, size)>> \o GetTasks(SubSeq(items, size + 1, Len(items)), size)

InitRunState ==
    /\ pc = "run_state"
    /\ raised = "none"
    /\ \E n \in 0..MaxRegions :
           /\ all_fips = [i \in 1..n |-> i]
           /\ fatal \in SUBSET (1..n)
    /\ n_workers \in 1..MaxWorkers
    /\ taskqueue = <<>>
    /\ worker = [w \in 1..n_workers |-> <<>>]
    /\ map_failed = FALSE
    /\ written = {}
    /\ OffPoolIdle

\* p.map(f, all_fips): the chunks are queued.
MapSubmit ==
    /\ pc = "run_state"
    /\ taskqueue' = GetTasks(all_fips, ChunkSize(Len(all_fips), n_workers))
    /\ pc' = "map"
    /\ UNCHANGED <<raised, all_fips, fatal, n_workers, worker, map_failed, written,
                   offPoolVars>>

\* A free process takes the next chunk.
WorkerTake(w) ==
    /\ pc = "map"
    /\ worker[w] = <<>>
    /\ taskqueue # <<>>
    /\ worker' = [worker EXCEPT ![w] = Head(taskqueue)]
    /\ taskqueue' = Tail(taskqueue)
    /\ UNCHANGED <<pc, raised, all_fips, fatal, n_workers, map_failed, written,
                   offPoolVars>>

\* _run_county on the next region of the chunk: the region's output is
\* written, or the exception ends the chunk.
RunCounty(w) ==
    /\ pc = "map"
    /\ worker[w] # <<>>
    /\ IF Head(worker[w]) \in fatal
       THEN /\ worker' = [worker EXCEPT ![w] = <<>>]
            /\ map_failed' = TRUE
            /\ UNCHANGED written
       ELSE /\ worker' = [worker EXCEPT ![w] = Tail(worker[w])]
            /\ written' = written \cup {Head(worker[w])}
            /\ UNCHANGED map_failed
    /\ UNCHANGED <<pc, raised, all_fips, fatal, n_workers, taskqueue, offPoolVars>>

\* Every chunk has ended: map returns and p.close() runs, or map raises.
MapReturn ==
    /\ pc = "map"
    /\ taskqueue = <<>>
    /\ \A w \in 1..n_workers : worker[w] = <<>>
    /\ raised' = IF map_failed THEN "Exception" ELSE "none"
    /\ pc' = "done"
    /\ UNCHANGED <<all_fips, fatal, n_workers, taskqueue, worker, map_failed, written,
                   offPoolVars>>

NextRunState ==
    \/ MapSubmit
    \/ \E w \in 1..n_workers : WorkerTake(w)
    \/ \E w \in 1..n_workers : RunCounty(w)
    \/ MapReturn

SpecRunState == InitRunState /\ [][NextRunState]_vars

\* C9: when run_state has ended, every region whose run raises nothing has had
\* its output written, wherever the failing regions are and however the
\* regions were grouped.
C9_SiblingRegionsComplete ==
    pc = "done" => \A i \in 1..Len(all_fips) : all_fips[i] \notin fatal => all_fips[i] \in written

(***************************************************************************)
(* InitialConditionsFitter.                                                *)
(* Dates are day numbers counted from 2020-01-01.  The optimizer searches  *)
(* a grid of parameters: the growth timescale is one doubling per day      *)
(* (scale = 1/ln 2), so the model is norm * 2^(t - t0), and predictions    *)
(* are carried multiplied by PredScale to stay whole for t < t0.           *)
(***************************************************************************)
\* Last calendar day of the observations.
MaxDate == 6

\* min_days_required, default of the constructor
MinDaysRequired == 5

\* A datetime, as the number of days after 2020-01-01.
Date(days) == [days |-> days]

CaseCounts == {0, 1, 2, 4}

NormGrid == {1, 2}

T0Grid == {0, 1, 2}

ParamGrid == [norm : NormGrid, t0 : T0Grid, scale : {1}]

RECURSIVE Pow2(_)
Pow2(n) == IF n <= 0 THEN 1 ELSE 2 * Pow2(n - 1)

T0Top == CHOOSE a \in T0Grid : \A b \in T0Grid : b <= a

PredScale == Pow2(T0Top)

\* The least common multiple of the positive case counts: the chi-square
\* terms (y_pred - y)^2 / y are carried multiplied by it.
CountLcm ==
    CHOOSE l \in 1..64 :
        /\ \A c \in CaseCounts \ {0} : l % c = 0
        /\ \A k \in 1..(l - 1) : \E c \in CaseCounts \ {0} : k % c # 0

RECURSIVE Ascending(_)
Ascending(D) ==
    IF D = {} THEN <<>>
    ELSE LET first == CHOOSE x \in D : \A z \in D : x <= z
         IN  <<first>> \o Ascending(D \ {first})

\* The rows load_county_case_data holds for one region: one row per observed
\* day, in date order, with the cumulative case count of that day.
CaseTables ==
    UNION {{[i \in 1..Cardinality(D) |-> [date |-> Ascending(D)[i], cases |-> ys[i]]] :
               ys \in {f \in [1..Cardinality(D) -> CaseCounts] :
                          \A i \in 1..(Cardinality(D) - 1) : f[i] <= f[i + 1]}} :
           D \in SUBSET (1..MaxDate)}

FitArgs ==
    [fips : {"06001"}, t0_case_count : {1}, start_days_before_t0 : {0, 2},
     start_days_after_t0 : {2, 1000}, min_days_required : {MinDaysRequired}]

\* n_days <= min_days_required: one observation too many is asked for.
TooFewDaysOffByOne(n_days, min_days_required) == n_days <= min_days_required

\* Line 48: n_days < min_days_required
TooFewDays(n_days, min_days_required) == n_days < min_days_required

\* The object at the end of __init__ (lines 39-63).
NewFitter(args, rows) ==
    [t0_case_count |-> args.t0_case_count,
     start_days_before_t0 |-> args.start_days_before_t0,
     start_days_after_t0 |-> args.start_days_after_t0,
     min_days_required |-> args.min_days_required,
     fips |-> args.fips,
     t |-> [i \in 1..Len(rows) |-> rows[i].date - rows[1].date],
     data_start_date |-> Date(rows[1].date),
     y |-> [i \in 1..Len(rows) |-> rows[i].cases],
     fit_predictions |-> None,
     t0 |-> None,
     t0_date |-> None,
     reduced_chi2 |-> None,
     model_params |-> None]

\* PredScale * exponential_model(norm, t0, scale, t), elementwise over t.
exponential_model(params, t) ==
    [i \in 1..Len(t) |-> params.norm * Pow2(t[i] - params.t0 + T0Top)]

\* _reduced_chi2(y_pred, y) as [num, dof]: the value is
\* num / (PredScale^2 * CountLcm * dof), with dof = len(chi2) - 1; only the
\* days with y > 0 enter.  dof = 0 makes it inf or NaN, dof = -1 makes it -0.0.
reduced_chi2(y_pred, y) ==
    LET positive == {i \in 1..Len(y) : y[i] > 0}
        term(i) == (y_pred[i] - PredScale * y[i]) * (y_pred[i] - PredScale * y[i])
                       * (CountLcm \div y[i])
    IN  [num |-> SumSeq([k \in 1..Len(y) |-> IF k \in positive THEN term(k) ELSE 0]),
         dof |-> Cardinality(positive) - 1]

\* exponential_loss: the loss of the parameters on self.t and self.y.
exponential_loss(self, params) == reduced_chi2(exponential_model(params, self.t), self.y)

\* fit_county_initial_conditions(self, t, y): the parameters migrad can return.
\* Minuit is given self.exponential_loss, which reads self.t and self.y; the
\* arguments t and y are not used.  Where the loss is a number it returns a
\* minimizer; where it is inf, NaN or constant it may stop anywhere.
fit_county_initial_conditions(self, t, y) ==
    IF exponential_loss(self, CHOOSE p \in ParamGrid : TRUE).dof <= 0
    THEN ParamGrid
    ELSE {p \in ParamGrid :
             \A q \in ParamGrid : exponential_loss(self, p).num <= exponential_loss(self, q).num}

Abs(x) == IF x < 0 THEN -x ELSE x

Min(a, b) == IF a <= b THEN a ELSE b

\* np.argmin(np.abs(fit_predictions - t0_case_count)), counted from 0.
ArgMinDistance(fit_predictions, t0_case_count) ==
    LET dist(i) == Abs(fit_predictions[i] - PredScale * t0_case_count)
    IN  (CHOOSE i \in 1..Len(fit_predictions) :
            /\ \A j \in 1..Len(fit_predictions) : dist(i) <= dist(j)
            /\ \A j \in 1..(i - 1) : dist(j) > dist(i)) - 1

\* seq[start:end] with 0 <= start, end <= len(seq)
Slice(seq, start, end) == SubSeq(seq, start + 1, end)

\* Lines 116-119: the window around the day the coarse fit crosses
\* t0_case_count.
FitWindow(self, coarse) ==
    LET fit_predictions == exponential_model(coarse, self.t)
        t0_idx == ArgMinDistance(fit_predictions, self.t0_case_count)
    IN  [t0_idx |-> t0_idx,
         filter_start |-> Max(0, t0_idx - self.start_days_before_t0),
         filter_end |-> Min(Len(self.t), t0_idx + self.start_days_after_t0)]

\* A fit whose t0 is the day the fitted curve itself reaches t0_case_count = 1,
\* t0 - log2(norm) of the parameters, and not a day of the observation grid.
FittedAtCurveCrossing(self, model_params) ==
    LET fit_predictions == exponential_model(model_params, self.t)
        t0_idx == ArgMinDistance(fit_predictions, self.t0_case_count)
        t0 == model_params.t0 - (IF model_params.norm = 2 THEN 1 ELSE 0)
        t0_date == Date(self.data_start_date.days + t0)
        chi2 == exponential_loss(self, model_params)
    IN  [self EXCEPT !.model_params = model_params,
                     !.fit_predictions = fit_predictions,
                     !.reduced_chi2 = chi2,
                     !.t0 = t0,
                     !.t0_date = t0_date]
        @@ [t0_idx |-> t0_idx,
            fit_summary |-> [model_params |-> model_params, t0_date |-> t0_date,
                             reduced_chi2 |-> chi2]]

\* Lines 121-135: the object after the refit returned model_params.
Fitted(self, model_params) ==
    LET fit_predictions == exponential_model(model_params, self.t)
        t0_idx == ArgMinDistance(fit_predictions, self.t0_case_count)
        t0 == self.t[t0_idx + 1]
        t0_date == Date(self.data_start_date.days + t0)
        chi2 == exponential_loss(self, model_params)
    IN  [self EXCEPT !.model_params = model_params,
                     !.fit_predictions = fit_predictions,
                     !.reduced_chi2 = chi2,
                     !.t0 = t0,
                     !.t0_date = t0_date]
        @@ [t0_idx |-> t0_idx,
            fit_summary |-> [model_params |-> model_params, t0_date |-> t0_date,
                             reduced_chi2 |-> chi2]]

\* The objects fit() can leave (lines 112-135).
FitResults(self) ==
    UNION {LET w == FitWindow(self, coarse)
           IN  {Fitted(self, refit) :
                   refit \in fit_county_initial_conditions(
                                 self,
                                 Slice(self.t, w.filter_start, w.filter_end),
                                 Slice(self.y, w.filter_start, w.filter_end))} :
           coarse \in fit_county_initial_conditions(self, self.t, self.y)}

InitFitter ==
    /\ pc = "new"
    /\ raised = "none"
    /\ cases \in CaseTables
    /\ fit_args \in FitArgs
    /\ fitter = EmptyDict
    /\ StartIdle
    /\ OffFitIdle

\* InitialConditionsFitter(fips, ...): Loaded, or Failed with ValueError
\* before any attribute after min_days_required is set.
ConstructFitter ==
    /\ pc = "new"
    /\ IF TooFewDays(Len(cases), fit_args.min_days_required)
       THEN /\ raised' = "ValueError"
            /\ pc' = "Failed"
            /\ UNCHANGED fitter
       ELSE /\ fitter' = NewFitter(fit_args, cases)
            /\ pc' = "Loaded"
            /\ UNCHANGED raised
    /\ UNCHANGED <<cases, fit_args, startVars, offFitVars>>

\* fitter.fit(): coarse fit, window, refit.
Fit ==
    /\ pc = "Loaded"
    /\ fitter' \in FitResults(fitter)
    /\ pc' = "Fitted"
    /\ UNCHANGED <<raised, cases, fit_args, startVars, offFitVars>>

NextFitter == ConstructFitter \/ Fit

SpecFitter == InitFitter /\ [][NextFitter]_vars

\* Distinct observation days of the region.
DistinctDays == Cardinality({cases[i].date : i \in 1..Len(cases)})

\* C4: with at least min_days_required distinct observation days neither the
\* constructor nor fit() raises and the fitter goes on to Fitted; with fewer
\* the constructor raises the data-insufficient error before any fit state
\* exists and the fitter is Failed for good.
C4_FitterRaisesOnlyOnTooFewDays ==
    /\ DistinctDays >= fit_args.min_days_required =>
           /\ raised = "none"
           /\ pc \in {"new", "Loaded", "Fitted"}
           /\ pc = "Loaded" => FitResults(fitter) # {}
    /\ DistinctDays < fit_args.min_days_required =>
           /\ pc \in {"new", "Failed"}
           /\ fitter = EmptyDict
           /\ pc = "Failed" => (raised = "ValueError" /\ ~ENABLED NextFitter)

\* C4 witness: a region with exactly min_days_required observation days has
\* been fitted without an exception.
C4_Witness ==
    /\ pc = "Fitted"
    /\ raised = "none"
    /\ DistinctDays = fit_args.min_days_required
    /\ fitter.t0_date.days >= cases[1].date

\* The parameters a fit of the observations (t, y) alone can return: the
\* minimizers of the reduced chi-square of the model on t against y.
MinimizersOn(t, y) ==
    IF reduced_chi2(exponential_model(CHOOSE p \in ParamGrid : TRUE, t), y).dof <= 0
    THEN ParamGrid
    ELSE {p \in ParamGrid :
             \A q \in ParamGrid :
                 reduced_chi2(exponential_model(p, t), y).num
                     <= reduced_chi2(exponential_model(q, t), y).num}

\* C12: after fit(), model_params minimizes the loss over the observations
\* between filter_start and filter_end of some coarse fit only, and
\* reduced_chi2 is the loss of those parameters on the full series.
C12_RefitMinimizesOverWindowOnly ==
    pc = "Fitted" =>
        /\ \E coarse \in fit_county_initial_conditions(fitter, fitter.t, fitter.y) :
               LET w == FitWindow(fitter, coarse)
               IN  fitter.model_params \in
                       MinimizersOn(Slice(fitter.t, w.filter_start, w.filter_end),
                                    Slice(fitter.y, w.filter_start, w.filter_end))
        /\ fitter.reduced_chi2 = exponential_loss(fitter, fitter.model_params)

\* Dates of the region's observations.
ObservationDates == {cases[i].date : i \in 1..Len(cases)}

\* C15: after fit(), t0_idx is an index of the observation series (counted
\* from 0), t0 is the grid value at it, and t0_date is the date of that
\* observation: never before the first observation nor after the last.
C15_StartDateWithinObservations ==
    pc = "Fitted" =>
        /\ fitter.t0_idx \in 0..(Len(fitter.t) - 1)
        /\ Len(fitter.t) = Len(cases)
        /\ fitter.t0 = fitter.t[fitter.t0_idx + 1]
        /\ fitter.t0_date.days = cases[fitter.t0_idx + 1].date
        /\ \A d \in ObservationDates : fitter.data_start_date.days <= d
        /\ \E d \in ObservationDates : d <= fitter.t0_date.days
        /\ \E d \in ObservationDates : fitter.t0_date.days <= d
        /\ fitter.fit_summary.t0_date = fitter.t0_date

\* C15 witness: the optimizer stopped at parameters whose curve is already
\* above t0_case_count at the first observation, so the curve crossed it
\* before the data begins, and the reported start date is the first
\* observation's date.
C15_Witness ==
    /\ pc = "Fitted"
    /\ fitter.model_params = [norm |-> 2, t0 |-> 0, scale |-> 1]
    /\ fitter.fit_predictions[1] > PredScale * fitter.t0_case_count
    /\ fitter.t0_idx = 0
    /\ fitter.t0_date = Date(cases[1].date)
    /\ cases[1].date > 1

(***************************************************************************)
(* generate_start_times_for_state.                                         *)
(***************************************************************************)
\* Counties of the state.
MaxCounties == 5

\* cv=4 of cross_validate
CvFolds == 4

\* Regression outputs of best_model.predict, in days from 2020-01-01.
PredictedDays == {2, 4}

CountyFips(n) == [i \in 1..n |-> "0600" \o ToString(i)]

\* The case tables of the counties of the state: one with fewer rows than
\* min_days_required and two with enough.
StateCaseTables ==
    {[i \in 1..3 |-> [date |-> i + 2, cases |-> <<1, 1, 2>>[i]]],
     [i \in 1..5 |-> [date |-> i + 1, cases |-> <<1, 2, 4, 4, 4>>[i]]],
     [i \in 1..6 |-> [date |-> i, cases |-> <<0, 0, 1, 2, 4, 4>>[i]]]}

\* Line 195: the summary recorded for a county whose constructor raised.
NullFit == [model_params |-> None, t0_date |-> None, reduced_chi2 |-> None]

\* Lines 183-186 of the loop: the arguments of the constructor.
StartTimesFitArgs(f) ==
    [fips |-> f, t0_case_count |-> 1, start_days_before_t0 |-> 0,
     start_days_after_t0 |-> 1000, min_days_required |-> MinDaysRequired]

\* Lines 202-208: one row per county, in loop order; days_from_2020_01_01 is
\* null where t0_date is.
MergedFits(order, fit_map) ==
    [i \in 1..Len(order) |->
        [fips |-> order[i],
         model_params |-> fit_map[order[i]].model_params,
         t0_date |-> fit_map[order[i]].t0_date,
         reduced_chi2 |-> fit_map[order[i]].reduced_chi2,
         days_from_2020_01_01 |-> IF fit_map[order[i]].t0_date = None
                                  THEN NaN ELSE fit_map[order[i]].t0_date.days]]

samples_with_data(rows) == {i \in 1..Len(rows) : ~IsNaN(rows[i].days_from_2020_01_01)}

samples_with_no_data(rows) == {i \in 1..Len(rows) : IsNaN(rows[i].days_from_2020_01_01)}

\* The imputation with the two flags of lines 227-228 exchanged.
ImputedFlagsExchanged(rows, predict) ==
    [i \in 1..Len(rows) |->
        IF i \in samples_with_no_data(rows)
        THEN [rows[i] EXCEPT !.days_from_2020_01_01 = predict[i], !.t0_date = Date(predict[i])]
             @@ [imputed_start_time |-> FALSE, doubling_rate_days |-> NaN]
        ELSE rows[i]
             @@ [imputed_start_time |-> TRUE,
                 doubling_rate_days |-> rows[i].model_params.scale]]

\* Lines 221-229: imputed dates, flags and doubling times.  scale is in
\* units of 1/ln 2 days, so ln(2) * scale is carried as scale.
Imputed(rows, predict) ==
    [i \in 1..Len(rows) |->
        IF i \in samples_with_no_data(rows)
        THEN [rows[i] EXCEPT !.days_from_2020_01_01 = predict[i], !.t0_date = Date(predict[i])]
             @@ [imputed_start_time |-> TRUE, doubling_rate_days |-> NaN]
        ELSE rows[i]
             @@ [imputed_start_time |-> FALSE,
                 doubling_rate_days |-> rows[i].model_params.scale]]

InitStartTimes ==
    /\ pc = "start"
    /\ raised = "none"
    /\ \E n \in 0..MaxCounties :
          /\ counties = CountyFips(n)
          /\ case_data \in [Range(CountyFips(n)) -> StateCaseTables]
    /\ county_idx = 0
    /\ fips_to_fit_map = EmptyDict
    /\ merged = <<>>
    /\ cases = <<>>
    /\ fit_args = EmptyDict
    /\ fitter = EmptyDict
    /\ OffFitIdle

\* Lines 165-178: the state's counties are selected; none is an error.
SelectCounties ==
    /\ pc = "start"
    /\ IF Len(counties) = 0
       THEN /\ raised' = "ValueError"
            /\ pc' = "failed"
       ELSE /\ pc' = "loop"
            /\ UNCHANGED raised
    /\ UNCHANGED <<cases, fit_args, fitter, startVars, offFitVars>>

\* Lines 179-195: one iteration of the loop.  A ValueError of the constructor
\* is caught and the county gets the null summary; 'fitter' keeps the object
\* of the last county whose constructor returned.
FitCounty ==
    /\ pc = "loop"
    /\ county_idx < Len(counties)
    /\ LET f == counties[county_idx + 1]
       IN  /\ cases' = case_data[f]
           /\ fit_args' = StartTimesFitArgs(f)
           /\ IF TooFewDays(Len(case_data[f]), StartTimesFitArgs(f).min_days_required)
              THEN /\ fips_to_fit_map' = Put(fips_to_fit_map, f, NullFit)
                   /\ UNCHANGED fitter
              ELSE /\ fitter' \in FitResults(NewFitter(StartTimesFitArgs(f), case_data[f]))
                   /\ fips_to_fit_map' = Put(fips_to_fit_map, f, fitter'.fit_summary)
    /\ county_idx' = county_idx + 1
    /\ UNCHANGED <<pc, raised, counties, case_data, merged, offFitVars>>

\* Lines 202-230: merge, cross-validation, training, imputation and the
\* write of the table.  With no fitted county t0_date holds no date and
\* line 204 raises; with fewer fitted counties than folds cross_validate
\* raises ValueError.
ImputeAndWrite ==
    /\ pc = "loop"
    /\ county_idx = Len(counties)
    /\ LET rows == MergedFits(counties, fips_to_fit_map)
           n_samples == Cardinality(samples_with_data(rows))
       IN  IF n_samples = 0
           THEN /\ raised' \in {"TypeError", "AttributeError"}
                /\ pc' = "failed"
                /\ UNCHANGED merged
           ELSE IF n_samples < CvFolds
           THEN /\ raised' = "ValueError"
                /\ pc' = "failed"
                /\ UNCHANGED merged
           ELSE /\ \E predict \in [samples_with_no_data(rows) -> PredictedDays] :
                       merged' = Imputed(rows, predict)
                /\ pc' = "written"
                /\ UNCHANGED raised
    /\ UNCHANGED <<cases, fit_args, fitter, counties, case_data, county_idx,
                   fips_to_fit_map, offFitVars>>

NextStartTimes == SelectCounties \/ FitCounty \/ ImputeAndWrite

SpecStartTimes == InitStartTimes /\ [][NextStartTimes]_vars

\* The counties whose constructor raises the data-insufficient error.
FailingCounties ==
    {i \in 1..Len(counties) : TooFewDays(Len(case_data[counties[i]]), MinDaysRequired)}

\* C5: whenever some counties of the state fail with the data-insufficient
\* error, each of them is recorded with the null summary once the loop has
\* passed it, the batch only ends after every county was processed, and it
\* ends with the table written and no exception.
C5_FailingRegionsDoNotStopTheBatch ==
    FailingCounties # {} =>
        /\ \A i \in FailingCounties :
               i <= county_idx => fips_to_fit_map[counties[i]] = NullFit
        /\ pc \in {"written", "failed"} => county_idx = Len(counties)
        /\ raised = "none"
        /\ pc # "failed"

\* C14: in the written table every county of the state has one row with a
\* start date and a number of days; imputed_start_time is true exactly for
\* the counties without a fit; the start date and the days of a county with
\* a fit are those of its fit.
C14_ImputationFillsOnlyMissing ==
    pc = "written" =>
        /\ Len(merged) = Len(counties)
        /\ \A i \in 1..Len(merged) :
               LET f == counties[i]
                   fit == fips_to_fit_map[f]
               IN  /\ merged[i].fips = f
                   /\ merged[i].t0_date # None
                   /\ ~IsNaN(merged[i].days_from_2020_01_01)
                   /\ merged[i].imputed_start_time = (fit.t0_date = None)
                   /\ merged[i].imputed_start_time = (i \in FailingCounties)
                   /\ fit.t0_date # None =>
                          /\ merged[i].t0_date = fit.t0_date
                          /\ merged[i].days_from_2020_01_01 = fit.t0_date.days

\* C14 witness: a table was written for five counties of which the second
\* had too few rows and got an imputed date, and the first kept its fit.
C14_Witness ==
    /\ pc = "written"
    /\ Len(counties) = 5
    /\ FailingCounties = {2}
    /\ merged[2].imputed_start_time
    /\ merged[2].t0_date = Date(4)
    /\ ~merged[1].imputed_start_time
    /\ merged[1].t0_date = fips_to_fit_map[counties[1]].t0_date

====
